---- MODULE Spec2Model ----
(***************************************************************************)
(* Model of the two section-insertion scripts of the job-portal docs:      *)
(*   src/docs/update_specs.py        inserts "## 8. Onboarding"            *)
(*   src/update_specs_employer.py    inserts "## 18. Employer Onboarding"  *)
(* Both read docs/use-case-specifications.md, insert one section before a  *)
(* numbered heading, renumber the headings that follow and write the file  *)
(* back.                                                                   *)
(*                                                                         *)
(* The document is the decoded text of the file: a sequence of tokens.  A  *)
(* token is a run of characters that the scripts never look inside:        *)
(*   hash   the three characters "## "                                     *)
(*   num    a decimal numeral without a leading zero, value v              *)
(*   num0   the numeral of value v written with one leading zero ("08")    *)
(*   dot    "."            sp     " "            nl     "\n"               *)
(*   title  a heading's title text (v identifies the text)                 *)
(*   body   a block of body text that holds no "\n" and does not begin     *)
(*          with "## " (v identifies the text)                             *)
(*   rule   "---"          fence  a Markdown code fence                    *)
(***************************************************************************)
EXTENDS Naturals, Sequences, FiniteSets

VARIABLES content,    \* text of use-case-specifications.md
          prev,       \* text of the file before the last run
          ran,        \* the script that ran last
          inserted,   \* whether the last run inserted its section
          exit_code,  \* exit status of the last run
          stdout,     \* what the last run printed
          runs        \* number of runs so far

vars == <<content, prev, ran, inserted, exit_code, stdout, runs>>

\* ------------------------------------------------------------------ bounds
MaxSections == 19
MaxRuns == 2

\* ------------------------------------------------------------------ tokens
Tok(k, v) == [k |-> k, v |-> v]
NL == Tok("nl", 0)
HASH == Tok("hash", 0)
DOT == Tok("dot", 0)
SP == Tok("sp", 0)
RULE == Tok("rule", 0)
FENCE == Tok("fence", 0)
Num(n) == Tok("num", n)
Num0(n) == Tok("num0", n)
Title(i) == Tok("title", i)
Body(i) == Tok("body", i)

\* \d+ : a run of decimal digits
IsDigits(t) == t.k \in {"num", "num0"}

\* int(s) on a run of digits: leading zeros do not count
IntOf(t) == t.v

\* f"{n}": the decimal numeral of n, never with a leading zero
StrOf(n) == Num(n)

\* ------------------------------------------------------- split and join
\* a variant of Split that works like str.splitlines(): a final newline
\* ends the last line and starts no empty one
Split_LikeSplitlines(s) ==
  LET seps == {i \in 1..Len(s) : s[i] = NL}
      upto(i) == {x \in seps : x < i}
      last(i) == IF upto(i) = {} THEN 0
                 ELSE CHOOSE x \in upto(i) : \A y \in upto(i) : y <= x
      ends == IF s # <<>> /\ s[Len(s)] # NL THEN seps \cup {Len(s) + 1} ELSE seps
      nth(j) == CHOOSE e \in ends : Cardinality({x \in ends : x <= e}) = j
  IN [j \in 1..Cardinality(ends) |-> SubSeq(s, last(nth(j)) + 1, nth(j) - 1)]

\* the position of the first newline at or after i, Len(s) + 1 if none
RECURSIVE NextNewline(_, _)
NextNewline(s, i) ==
  IF i > Len(s) \/ s[i] = NL THEN i ELSE NextNewline(s, i + 1)

RECURSIVE SplitFrom(_, _, _)
SplitFrom(s, start, acc) ==
  LET e == NextNewline(s, start)
      line == SubSeq(s, start, e - 1)
  IN IF e > Len(s) THEN Append(acc, line)
     ELSE SplitFrom(s, e + 1, Append(acc, line))

\* content.split('\n'): the text before the first newline, between each
\* newline and the next, and after the last one; empty strings are kept, so
\* a text with n newlines gives n + 1 strings
Split(s) == SplitFrom(s, 1, <<>>)

RECURSIVE JoinFrom(_, _)
JoinFrom(ls, i) ==
  IF i > Len(ls) THEN <<>>
  ELSE IF i = Len(ls) THEN ls[i]
  ELSE ls[i] \o <<NL>> \o JoinFrom(ls, i + 1)

\* '\n'.join(new_lines)
Join(ls) == JoinFrom(ls, 1)

IsSpace(t) == t.k \in {"nl", "sp"}

RECURSIVE LStrip(_)
LStrip(s) == IF s # <<>> /\ IsSpace(Head(s)) THEN LStrip(Tail(s)) ELSE s

RECURSIVE RStrip(_)
RStrip(s) ==
  IF s # <<>> /\ IsSpace(s[Len(s)]) THEN RStrip(SubSeq(s, 1, Len(s) - 1)) ELSE s

\* str.strip()
Strip(s) == RStrip(LStrip(s))

\* --------------------------------------------------- the inserted sections
OnboardingTitle == Title(100)
OnboardingBody == Body(100)
EmployerTitle == Title(200)
EmployerBody == Body(200)

\* update_specs.py: the heading, a blank line, the body, a blank line, the
\* rule, a blank line
new_use_case ==
  <<HASH, Num(8), DOT, SP, OnboardingTitle, NL, NL, OnboardingBody, NL, NL,
    RULE, NL, NL>>

\* update_specs_employer.py: begins with a newline and ends after the rule
new_section ==
  <<NL, HASH, Num(18), DOT, SP, EmployerTitle, NL, NL, EmployerBody, NL, NL,
    RULE, NL>>

\* --------------------------------------------------------- update_specs.py
\* the heading number the new section is inserted before (num == 8)
InsertBefore == 8
\* the number the old section 8 gets (current_section_num = 9)
RenumberFrom == 9

\* section_pattern = re.compile(r'^## (\d+)\. (.+)'), section_pattern.match(line)
SectionMatch(line) ==
  /\ Len(line) >= 5
  /\ line[1] = HASH
  /\ IsDigits(line[2])
  /\ line[3] = DOT
  /\ line[4] = SP

\* int(match.group(1))
GroupNum(line) == IntOf(line[2])

\* match.group(2)
GroupTitle(line) == SubSeq(line, 5, Len(line))

\* a variant of FormatHeading that leaves out the space after the dot
FormatHeading_NoSpace(n, title) == <<HASH, Num(n), DOT>> \o title

\* f"## {current_section_num}. {title}"
FormatHeading(n, title) == <<HASH, StrOf(n), DOT, SP>> \o title

\* the state of the loop before the first line
LoopInit == [new_lines |-> <<>>, inserted |-> FALSE, current_section_num |-> 0]

\* a variant of LoopBody that renumbers the heading at the insertion point
\* only and passes the later headings through
LoopBody_KeepLater(st, line, target, first, text) ==
  IF SectionMatch(line) /\ GroupNum(line) = target /\ ~st.inserted
  THEN [new_lines |-> st.new_lines \o
            <<Strip(text), <<>>, <<>>, FormatHeading(first, GroupTitle(line))>>,
        inserted |-> TRUE,
        current_section_num |-> first]
  ELSE [st EXCEPT !.new_lines = Append(@, line)]

\* a variant of LoopBody that puts the new section after the heading found
LoopBody_InsertAfter(st, line, target, first, text) ==
  IF SectionMatch(line)
  THEN IF GroupNum(line) = target /\ ~st.inserted
       THEN [new_lines |-> st.new_lines \o
                 <<FormatHeading(first, GroupTitle(line)), Strip(text), <<>>, <<>>>>,
             inserted |-> TRUE,
             current_section_num |-> first]
       ELSE IF st.inserted
       THEN [new_lines |-> Append(st.new_lines,
                 FormatHeading(st.current_section_num + 1, GroupTitle(line))),
             inserted |-> TRUE,
             current_section_num |-> st.current_section_num + 1]
       ELSE [st EXCEPT !.new_lines = Append(@, line)]
  ELSE [st EXCEPT !.new_lines = Append(@, line)]

\* one pass of the body of `for line in lines`
LoopBody(st, line, target, first, text) ==
  IF SectionMatch(line)
  THEN IF GroupNum(line) = target /\ ~st.inserted
       THEN [new_lines |-> st.new_lines \o
                 <<Strip(text), <<>>, <<>>, FormatHeading(first, GroupTitle(line))>>,
             inserted |-> TRUE,
             current_section_num |-> first]
       ELSE IF st.inserted
       THEN [new_lines |-> Append(st.new_lines,
                 FormatHeading(st.current_section_num + 1, GroupTitle(line))),
             inserted |-> TRUE,
             current_section_num |-> st.current_section_num + 1]
       ELSE [st EXCEPT !.new_lines = Append(@, line)]
  ELSE [st EXCEPT !.new_lines = Append(@, line)]

RECURSIVE LoopFrom(_, _, _, _, _, _)
LoopFrom(st, lines, i, target, first, text) ==
  IF i > Len(lines) THEN st
  ELSE LoopFrom(LoopBody(st, lines[i], target, first, text), lines, i + 1,
                target, first, text)

\* for line in lines: ...
ScanLines(lines, target, first, text) ==
  LoopFrom(LoopInit, lines, 1, target, first, text)

\* ------------------------------------------------ update_specs_employer.py
\* the heading number searched for (r"^## 18\.")
EmployerTarget == 18

\* ^ under re.MULTILINE: the start of the text or just after a newline
AtLineStart(s, i) == i = 1 \/ s[i - 1] = NL

\* where r"^## <k>\." matches, k written as the literal numeral
LiteralMatches(s, k) ==
  {i \in 1..Len(s) : /\ AtLineStart(s, i)
                     /\ i + 2 <= Len(s)
                     /\ s[i] = HASH
                     /\ s[i + 1] = StrOf(k)
                     /\ s[i + 2] = DOT}

\* re.search(...): the first match, 0 when there is none (match is None);
\* otherwise match.start(), counted from 1
Search(s, k) ==
  LET ms == LiteralMatches(s, k)
  IN IF ms = {} THEN 0 ELSE CHOOSE i \in ms : \A j \in ms : i <= j

\* the digits of a match of r"^## (\d+)\." are at position i
HeaderDigitsAt(s, i) ==
  /\ i >= 2
  /\ i + 1 <= Len(s)
  /\ s[i - 1] = HASH
  /\ AtLineStart(s, i - 1)
  /\ IsDigits(s[i])
  /\ s[i + 1] = DOT

\* a variant of replace_header that adds two
replace_header_Twice(t) == Num(t.v + 2)

\* lambda m: f"## {int(m.group(1)) + 1}."
replace_header(t) == StrOf(IntOf(t) + 1)

\* re.sub(r"^## (\d+)\.", ..., after, flags=re.MULTILINE)
Renumber(after) ==
  [i \in 1..Len(after) |->
     IF HeaderDigitsAt(after, i) THEN replace_header(after[i]) ELSE after[i]]

\* a variant of Combine that renumbers the text before the insertion point too
Combine_RenumberAll(s, idx, text) ==
  Renumber(SubSeq(s, 1, idx - 1)) \o text \o Renumber(SubSeq(s, idx, Len(s)))

\* before + new_section + after_renumbered, split at insert_index
Combine(s, idx, text) ==
  SubSeq(s, 1, idx - 1) \o text \o Renumber(SubSeq(s, idx, Len(s)))

\* ------------------------------------------- documents the file may hold
\* Where an irregularity of the document sits: early, around heading 8,
\* around heading 18.
IrregularAt ==
  {2, InsertBefore, InsertBefore + 2, EmployerTarget, EmployerTarget + 1}
NearBy == {2, InsertBefore + 1, EmployerTarget + 1}
Targets == {InsertBefore, EmployerTarget}

\* The shapes of document: regular; a heading number missing, repeated or
\* out of order; a heading numeral written with a leading zero; a body line
\* that looks like a heading ("## 8." with nothing after it, "## 8.1 text",
\* an indented " ## 8. text", a fenced example "## 8. text").
Shapes(n) ==
  {[a |-> "regular", at |-> 0, m |-> 0]}
  \cup {[a |-> a, at |-> p, m |-> 0] :
          a \in {"gap", "repeat", "swap", "zero"}, p \in IrregularAt \cap 1..n}
  \cup {[a |-> a, at |-> p, m |-> m] :
          a \in {"bare", "dotted", "indented", "fenced"},
          p \in NearBy \cap 1..n, m \in Targets}

\* the numeral of the j-th heading
HeadingNumeral(sh, j) ==
  CASE sh.a = "gap" -> Num(IF j < sh.at THEN j ELSE j + 1)
    [] sh.a = "repeat" -> Num(IF j <= sh.at THEN j ELSE j - 1)
    [] sh.a = "swap" -> Num(IF j = sh.at THEN j + 1
                            ELSE IF j = sh.at + 1 THEN j - 1 ELSE j)
    [] sh.a = "zero" -> IF j = sh.at THEN Num0(j) ELSE Num(j)
    [] OTHER -> Num(j)

ExampleTitle == Title(300)
ExampleText == Body(300)

\* the lines after the body text of the j-th section
ExtraLines(sh, j) ==
  IF j # sh.at THEN <<>>
  ELSE CASE sh.a = "bare" -> <<HASH, Num(sh.m), DOT, NL>>
         [] sh.a = "dotted" -> <<HASH, Num(sh.m), DOT, Num(1), SP, ExampleText, NL>>
         [] sh.a = "indented" -> <<SP, HASH, Num(sh.m), DOT, SP, ExampleTitle, NL>>
         [] sh.a = "fenced" ->
              <<FENCE, NL, HASH, Num(sh.m), DOT, SP, ExampleTitle, NL, FENCE, NL>>
         [] OTHER -> <<>>

\* the j-th section: its heading line, its body line, then the extra lines
SectionText(sh, j) ==
  <<HASH, HeadingNumeral(sh, j), DOT, SP, Title(j), NL, Body(j), NL>>
    \o ExtraLines(sh, j)

RECURSIVE SectionsText(_, _, _)
SectionsText(sh, j, n) ==
  IF j > n THEN <<>> ELSE SectionText(sh, j) \o SectionsText(sh, j + 1, n)

Preamble == <<Body(0), NL>>

\* a document of n sections, with or without text before the first heading,
\* with or without a final newline
Document(n, sh, pre, trail) ==
  LET s == (IF pre THEN Preamble ELSE <<>>) \o SectionsText(sh, 1, n)
  IN IF trail \/ s = <<>> THEN s ELSE SubSeq(s, 1, Len(s) - 1)

Documents ==
  UNION {{Document(n, sh, pre, trail) :
            sh \in Shapes(n), pre \in BOOLEAN, trail \in BOOLEAN} :
         n \in 0..MaxSections}

\* ---------------------------------------------------------------- the runs
Init ==
  /\ content \in Documents
  /\ prev = content
  /\ ran = "none"
  /\ inserted = FALSE
  /\ exit_code = 0
  /\ stdout = ""
  /\ runs = 0

\* python update_specs.py
RunUpdateSpecs ==
  /\ runs < MaxRuns
  /\ LET st == ScanLines(Split(content), InsertBefore, RenumberFrom, new_use_case)
     IN /\ content' = Join(st.new_lines)
        /\ inserted' = st.inserted
  /\ prev' = content
  /\ ran' = "update_specs"
  /\ exit_code' = 0
  /\ stdout' = "Successfully updated use-case-specifications.md"
  /\ runs' = runs + 1

\* python update_specs_employer.py
RunUpdateSpecsEmployer ==
  /\ runs < MaxRuns
  /\ LET insert_index == Search(content, EmployerTarget)
     IN IF insert_index = 0
        THEN /\ content' = content
             /\ inserted' = FALSE
             /\ exit_code' = 1
             /\ stdout' = "Could not find Section 18."
        ELSE /\ content' = Combine(content, insert_index, new_section)
             /\ inserted' = TRUE
             /\ exit_code' = 0
             /\ stdout' = "Successfully inserted Employer Onboarding and renumbered sections."
  /\ prev' = content
  /\ ran' = "update_specs_employer"
  /\ runs' = runs + 1

Next == RunUpdateSpecs \/ RunUpdateSpecsEmployer

Spec == Init /\ [][Next]_vars

\* ================================================================ properties
\* What the properties say about a document is read off its text here,
\* independently of the scripts' own matching.

\* a line start where the marker "## <digits>." begins
MarkerStarts(s) ==
  {i \in 1..Len(s) : /\ i = 1 \/ s[i - 1] = NL
                     /\ i + 2 <= Len(s)
                     /\ s[i] = HASH
                     /\ s[i + 1].k \in {"num", "num0"}
                     /\ s[i + 2] = DOT}

\* a line start where a heading "## <integer>. <title>" begins
HeadingStarts(s) ==
  {i \in MarkerStarts(s) : /\ i + 4 <= Len(s)
                           /\ s[i + 3] = SP
                           /\ s[i + 4] # NL}

\* position i lies inside a fenced code block
InFence(s, i) == Cardinality({j \in 1..(i - 1) : s[j] = FENCE}) % 2 = 1

\* the headings that are part of the document's structure
TrueHeadingStarts(s) == {i \in HeadingStarts(s) : ~InFence(s, i)}

NumSections(s) == Cardinality(HeadingStarts(s))

\* the place of the heading at i among the headings, counted from 1
Rank(s, i) == Cardinality({j \in HeadingStarts(s) : j <= i})

\* the j-th heading carries the number j
Numbered(s) == \A i \in HeadingStarts(s) : s[i + 1].v = Rank(s, i)

\* Well-formed: every line that begins with the marker is a heading of the
\* document's structure, its numeral is written without a leading zero, and
\* the headings are numbered 1..N in document order.
WellFormed(s) ==
  /\ MarkerStarts(s) = TrueHeadingStarts(s)
  /\ \A i \in HeadingStarts(s) : s[i + 1] = Num(Rank(s, i))

HasSection(s, k) == \E i \in HeadingStarts(s) : s[i + 1].v = k

\* where the first heading numbered k begins
SectionStart(s, k) ==
  LET hs == {i \in HeadingStarts(s) : s[i + 1].v = k}
  IN CHOOSE i \in hs : \A j \in hs : i <= j

TargetOf(r) == IF r = "update_specs" THEN InsertBefore ELSE EmployerTarget

\* the title and body of the section a script inserts
TitleAndBody(r) ==
  IF r = "update_specs"
  THEN <<OnboardingTitle, NL, NL, OnboardingBody, NL, NL, RULE>>
  ELSE <<EmployerTitle, NL, NL, EmployerBody, NL, NL, RULE>>

Occurrences(s, pat) ==
  {i \in 1..Len(s) : /\ i + Len(pat) - 1 <= Len(s)
                     /\ SubSeq(s, i, i + Len(pat) - 1) = pat}

\* the first position at or after i that holds no newline
RECURSIVE SkipNewlines(_, _)
SkipNewlines(s, i) ==
  IF i <= Len(s) /\ s[i] = NL THEN SkipNewlines(s, i + 1) ELSE i

\* the last run inserted its section into a well-formed document
InsertedIntoWellFormed == ran # "none" /\ inserted /\ WellFormed(prev)

\* ------------------------------------------------------------------------
\* C1: a run on a well-formed document leaves a well-formed document, so the
\* headings stay numbered 1..N over any sequence of runs; and a run that
\* inserted its section leaves exactly one section more, the j-th heading
\* carrying the number j.
C1_ContiguousAfterInsert ==
  (ran # "none" /\ WellFormed(prev)) =>
    /\ WellFormed(content)
    /\ Numbered(content)
    /\ NumSections(content) = NumSections(prev) + (IF inserted THEN 1 ELSE 0)

\* both scripts have inserted, one after the other
C1_Witness ==
  /\ runs = 2
  /\ InsertedIntoWellFormed
  /\ Occurrences(content, <<OnboardingTitle>>) # {}
  /\ Occurrences(content, <<EmployerTitle>>) # {}
  /\ NumSections(content) > EmployerTarget + 1

\* ------------------------------------------------------------------------
\* C2: after an insertion before section k of a well-formed document the
\* output begins with the input's text up to the heading of section k,
\* unchanged: the text before the first heading and the sections 1..k-1
\* (heading lines, titles, bodies), whose headings keep their numbers.
C2_PrefixStable ==
  InsertedIntoWellFormed =>
    LET k == TargetOf(ran)
        idx == SectionStart(prev, k)
    IN /\ HasSection(prev, k)
       /\ Len(content) >= idx - 1
       /\ SubSeq(content, 1, idx - 1) = SubSeq(prev, 1, idx - 1)
       /\ {i \in HeadingStarts(prev) : prev[i + 1].v < k}
            = {i \in HeadingStarts(prev) : i < idx}
       /\ {i \in HeadingStarts(content) : i < idx}
            = {i \in HeadingStarts(prev) : i < idx}

\* an insertion by the second script below a preamble and seventeen sections
C2_Witness ==
  /\ InsertedIntoWellFormed
  /\ ran = "update_specs_employer"
  /\ prev # <<>>
  /\ prev[1] = Body(0)
  /\ SectionStart(prev, EmployerTarget) > 1

\* ------------------------------------------------------------------------
\* C4: after an insertion before section k of a well-formed document the
\* output ends with the input's text from the heading of section k on, in
\* which the numeral of every heading line is replaced by the numeral of its
\* number plus one and nothing else is changed.
C4_SuffixShift ==
  InsertedIntoWellFormed =>
    LET idx == SectionStart(prev, TargetOf(ran))
        suffix == SubSeq(prev, idx, Len(prev))
        off == Len(content) - Len(suffix)
    IN /\ off >= idx - 1
       /\ \A i \in 1..Len(suffix) :
            content[off + i] =
              IF i >= 2 /\ (i - 1) \in HeadingStarts(suffix)
              THEN Num(suffix[i].v + 1)
              ELSE suffix[i]

\* sections 8 and 9 and more are shifted, and so is the section inserted by
\* an earlier run
C4_Witness ==
  /\ InsertedIntoWellFormed
  /\ ran = "update_specs"
  /\ Occurrences(prev, <<EmployerTitle>>) # {}
  /\ Occurrences(content, <<HASH, Num(EmployerTarget + 1), DOT, SP, EmployerTitle>>) # {}
  /\ NumSections(prev) > InsertBefore + 1

\* ------------------------------------------------------------------------
\* C8: a run of update_specs.py that inserts nothing (no heading, or no
\* heading numbered 8) writes back the text it read: splitting at the
\* newlines and joining again loses and adds nothing.
C8_RoundTrip ==
  (ran = "update_specs" /\ ~inserted) => content = prev

\* headings but none numbered 8, in a text that ends with a newline
C8_Witness ==
  /\ ran = "update_specs"
  /\ ~inserted
  /\ NumSections(prev) > 0
  /\ prev[Len(prev)] = NL
  /\ content = prev

\* ------------------------------------------------------------------------
\* The new section sits at the insertion point: after the unchanged text of
\* the sections below k come, newlines aside, the heading "## k. <title>",
\* the new title and body verbatim, and then the heading of the section that
\* was numbered k, now numbered k + 1.
PlacedBeforeSection(k) ==
  LET idx == SectionStart(prev, k)
      tb == TitleAndBody(ran)
      p == SkipNewlines(content, idx)
      q == SkipNewlines(content, p + 4 + Len(tb))
  IN /\ SubSeq(content, 1, idx - 1) = SubSeq(prev, 1, idx - 1)
     /\ q + 4 <= Len(content)
     /\ SubSeq(content, p, p + 3) = <<HASH, Num(k), DOT, SP>>
     /\ SubSeq(content, p + 4, p + 3 + Len(tb)) = tb
     /\ SubSeq(content, q, q + 4) = <<HASH, Num(k + 1), DOT, SP, prev[idx + 4]>>

\* C3 as stated: after an insertion at k the new section's title and body
\* are in the output exactly once, at the insertion point, numbered k.
C3_ExactlyOnce ==
  InsertedIntoWellFormed =>
    /\ PlacedBeforeSection(TargetOf(ran))
    /\ Cardinality(Occurrences(content, TitleAndBody(ran))) = 1

\* C3, amended: after an insertion at k into a well-formed document the new
\* section's title and body are in the output exactly once more than in the
\* input (once, when the input did not hold them), at the insertion point,
\* numbered k.
C3_OnceMore ==
  InsertedIntoWellFormed =>
    /\ PlacedBeforeSection(TargetOf(ran))
    /\ Cardinality(Occurrences(content, TitleAndBody(ran)))
         = Cardinality(Occurrences(prev, TitleAndBody(ran))) + 1

\* the first script has inserted "Onboarding" before a section 8 that had
\* sections after it
C3_Witness ==
  /\ InsertedIntoWellFormed
  /\ ran = "update_specs"
  /\ Occurrences(prev, TitleAndBody(ran)) = {}
  /\ Cardinality(Occurrences(content, TitleAndBody(ran))) = 1
  /\ NumSections(prev) > InsertBefore

\* ------------------------------------------------------------------------
\* the numbers of the headings, in document order
HeadingNumbers(s) ==
  LET hs == SelectSeq(Split(s), LAMBDA l : Len(l) >= 5 /\ l[1] = HASH
                                   /\ l[2].k \in {"num", "num0"}
                                   /\ l[3] = DOT /\ l[4] = SP)
  IN [j \in 1..Len(hs) |-> hs[j][2].v]

\* the last n entries of a sequence
LastN(q, n) == SubSeq(q, Len(q) - n + 1, Len(q))

\* the output of update_specs.py's way of renumbering, for target k
ByCounter(doc, t) ==
  Join(ScanLines(Split(doc), t, t + 1, new_use_case).new_lines)

\* the output of update_specs_employer.py's way of renumbering, for target k
ByIncrement(doc, t) == Combine(doc, Search(doc, t), new_section)

\* C10: on a well-formed document that has a section k, counting the
\* downstream headings up from k + 1 and adding one to each downstream
\* heading's own number give the same heading numbers, k + 1 .. N + 1.
C10_StrategiesAgree ==
  \A k \in Targets :
    (WellFormed(content) /\ HasSection(content, k)) =>
      LET n == NumSections(content) - k + 1
          a == HeadingNumbers(ByCounter(content, k))
          b == HeadingNumbers(ByIncrement(content, k))
      IN /\ Len(a) = NumSections(content) + 1
         /\ Len(b) = NumSections(content) + 1
         /\ LastN(a, n) = LastN(b, n)
         /\ LastN(a, n) = [j \in 1..n |-> k + j]

\* a well-formed document of nineteen sections: both ways renumber its
\* sections 18 and 19 to 19 and 20
C10_Witness ==
  /\ WellFormed(content)
  /\ HasSection(content, EmployerTarget)
  /\ NumSections(content) = EmployerTarget + 1
  /\ LastN(HeadingNumbers(ByCounter(content, EmployerTarget)), 2)
       = <<EmployerTarget + 1, EmployerTarget + 2>>
  /\ LastN(HeadingNumbers(ByIncrement(content, EmployerTarget)), 2)
       = <<EmployerTarget + 1, EmployerTarget + 2>>

\* ------------------------------------------------------------------------
\* C5: when the target of a run is N + 1 for a well-formed document of N
\* sections (no section carries the target number), the run succeeds and
\* the output is the input, unaltered, followed by the new section numbered
\* N + 1.
C5_AppendAtEnd ==
  (ran # "none" /\ WellFormed(prev) /\ NumSections(prev) + 1 = TargetOf(ran)) =>
    /\ inserted
    /\ exit_code = 0
    /\ Len(content) > Len(prev)
    /\ SubSeq(content, 1, Len(prev)) = prev
    /\ Numbered(content)
    /\ NumSections(content) = NumSections(prev) + 1
    /\ Cardinality(Occurrences(content, TitleAndBody(ran)))
         = Cardinality(Occurrences(prev, TitleAndBody(ran))) + 1

\* ------------------------------------------------------------------------
\* C6: a run on a document whose heading numbers are not 1, 2, 3, ... in
\* document order ends in an error and leaves the document as it was.
C6_MalformedRejected ==
  (ran # "none" /\ ~Numbered(prev)) =>
    /\ exit_code # 0
    /\ ~inserted
    /\ content = prev

\* ------------------------------------------------------------------------
\* C7: a run whose target lies beyond N + 1 for a well-formed document of N
\* sections ends in an error, not in a report of success, and leaves the
\* document as it was.
C7_OutOfRangeIsError ==
  (ran # "none" /\ WellFormed(prev) /\ TargetOf(ran) > NumSections(prev) + 1) =>
    /\ exit_code # 0
    /\ ~inserted
    /\ content = prev

\* ------------------------------------------------------------------------
\* C9: a run that inserts does so before a heading of the document's
\* structure carrying the target number; the lines before it are unchanged,
\* and every later line that is not such a heading (body text, also body
\* text that looks like a heading) is emitted unchanged and in its place.
C9_OnlyTrueHeadings ==
  (ran # "none" /\ inserted) =>
    LET old == Split(prev)
        new == Split(content)
        added == Len(new) - Len(old)
        \* the position at which the i-th line of the input begins
        startOf(i) == IF i = 1 THEN 1 ELSE Len(Join(SubSeq(old, 1, i - 1))) + 2
        isHeading(i) == startOf(i) \in TrueHeadingStarts(prev)
    IN \E at \in 1..Len(old) :
         /\ isHeading(at)
         /\ old[at][2].v = TargetOf(ran)
         /\ \A i \in 1..(at - 1) : new[i] = old[i]
         /\ \A i \in at..Len(old) : ~isHeading(i) => new[i + added] = old[i]

====
